---------------------------- MODULE Spec2Model ----------------------------
(***************************************************************************)
(* IMDb-Filmstatistik: the CSV parser (parseCSV) and the upload workflow   *)
(* of the App component (handleFileSelect, the FileReader callbacks,       *)
(* handleSearchChange), modelled from src/App.tsx and the components.      *)
(*                                                                         *)
(* A JavaScript string is a sequence of symbols.  A symbol is one          *)
(* character ("," ";" the double quote, blank, "\n", "\r", U+FEFF, a       *)
(* letter or digit) or an atom: a fixed run of ordinary characters (no     *)
(* delimiter, quote or whitespace in it) that no operation looks inside,   *)
(* such as the column name Const.  Object keys are the strings obtained    *)
(* by concatenating the symbols (Str).                                     *)
(***************************************************************************)
EXTENDS Integers, Sequences, FiniteSets, TLC

VARIABLES
    allMovies,          \* useState<IMDbEntry[]>([])
    chartData,          \* useState<ChartDataPoint[]>([])
    fileName,           \* useState<string | null>(null)
    error,              \* useState<string | null>(null)
    isLoading,          \* useState<boolean>(false)
    searchTerm,         \* useState<string>('')
    searchResults,      \* useState<IMDbEntry[]>([])
    availableColumns,   \* useState<string[]>([])
    selectedYear,       \* useState<string | null>(null)
    isModalOpen,        \* useState<boolean>(false)
    modalSearchTerm,    \* MovieDetailsModal: useState('') (searchTerm)
    selectedGenres,     \* MovieList: useState<Set<string>>(new Set())
    selectedRatings,    \* MovieList: useState<Set<string>>(new Set())
    yearRange,          \* MovieList: useState({ min: '', max: '' })
    directorSearchTerm, \* MovieList: useState('')
    sortBy,             \* MovieList: useState<SortOption>('rating_desc')
    readers,            \* the files of the FileReaders still reading, in creation order
    disk,               \* which files the user has at hand to select or drop
    op,                 \* the handler or callback that ran last, and its argument
    text,               \* parseCSV called on its own: the argument
    result,             \* parseCSV called on its own: the value returned
    moviesArg,          \* createChartData called on its own: the argument
    points,             \* createChartData called on its own: the value returned
    called              \* a function called on its own: has it returned

vars == <<allMovies, chartData, fileName, error, isLoading, searchTerm,
          searchResults, availableColumns, selectedYear, isModalOpen,
          modalSearchTerm, selectedGenres, selectedRatings, yearRange,
          directorSearchTerm, sortBy, readers, disk, op,
          text, result, moviesArg, points, called>>

\* the state of MovieDetailsModal and what App shows it by
modalVars == <<selectedYear, isModalOpen, modalSearchTerm>>

\* the state of MovieList
listVars == <<selectedGenres, selectedRatings, yearRange, directorSearchTerm,
              sortBy>>

appVars == <<allMovies, chartData, fileName, error, isLoading, searchTerm,
             searchResults, availableColumns, modalVars, listVars, readers,
             disk, op>>

parseVars == <<text, result, moviesArg, points, called>>

---------------------------------------------------------------------------
(* Symbols *)

Comma == ","
Semicolon == ";"
Quote == "\""
Space == " "
LF == "\n"
CR == "\r"
BOM == "<FEFF>"

\* String.prototype.trim strips WhiteSpace and LineTerminator code points;
\* U+FEFF is a WhiteSpace code point.
IsWhitespace(c) == c \in {Space, LF, CR, BOM}

Range(s) == {s[i] : i \in 1..Len(s)}

Min(S) == CHOOSE m \in S : \A n \in S : m <= n

Max(S) == CHOOSE m \in S : \A n \in S : m >= n

\* The JavaScript string a symbol sequence stands for.
RECURSIVE Str(_)
Str(s) == IF s = <<>> THEN "" ELSE Head(s) \o Str(Tail(s))

\* s.trim()
Trim(s) ==
    LET solid == {i \in 1..Len(s) : ~IsWhitespace(s[i])}
    IN  IF solid = {} THEN <<>> ELSE SubSeq(s, Min(solid), Max(solid))

\* s.split(sep) for the separator occurrences at the positions P of s, each
\* occurrence one symbol long: the pieces between them, in order.
SplitAt(s, P) ==
    LET ends == P \cup {Len(s) + 1}
        EndOf(k) == CHOOSE e \in ends : Cardinality({p \in P : p < e}) = k - 1
        StartOf(e) == Max({p \in P : p < e} \cup {0}) + 1
    IN  [k \in 1..(Cardinality(P) + 1) |->
            SubSeq(s, StartOf(EndOf(k)), EndOf(k) - 1)]

---------------------------------------------------------------------------
(* parseCSV, src/App.tsx:11-51 *)

\* lines 12-16: trim, then drop a byte order mark at position 0
Content(t) ==
    LET content == Trim(t)
    IN  IF content # <<>> /\ content[1] = BOM THEN Tail(content) ELSE content

\* content.split(/\r?\n/): cut at every "\n"; a "\r" right before it belongs
\* to the separator
SplitLines(content) ==
    LET pieces == SplitAt(content, {i \in 1..Len(content) : content[i] = LF})
        n == Len(pieces)
    IN  [k \in 1..n |->
            IF k < n /\ pieces[k] # <<>> /\ pieces[k][Len(pieces[k])] = CR
            THEN SubSeq(pieces[k], 1, Len(pieces[k]) - 1)
            ELSE pieces[k]]

IsBlank(line) == Trim(line) = <<>>

\* line 18
Lines(t) ==
    LET NotBlank(line) == ~IsBlank(line)
    IN  SelectSeq(SplitLines(Content(t)), NotBlank)

\* headerLine.split(c).length
SplitCount(line, c) == Cardinality({i \in 1..Len(line) : line[i] = c}) + 1

\* line 24
Delimiter(headerLine) ==
    IF SplitCount(headerLine, Comma) >= SplitCount(headerLine, Semicolon)
    THEN Comma ELSE Semicolon

QuotesIn(s, from, to) == Cardinality({i \in from..to : s[i] = Quote})

\* a split on the bare delimiter, blind to double quotes
EveryDelimiter(line, delimiter) == {i \in 1..Len(line) : line[i] = delimiter}

\* line 25: the regex matches a delimiter that is followed, up to the end of
\* the line, by an even number of double quotes
RegexMatches(line, delimiter) ==
    {i \in 1..Len(line) :
        /\ line[i] = delimiter
        /\ QuotesIn(line, i + 1, Len(line)) % 2 = 0}

\* line.split(regex)
SplitLine(line, delimiter) == SplitAt(line, RegexMatches(line, delimiter))

\* s.replace(/^"|"$/g, ''): a double quote at position 0 goes, and so does
\* a double quote at the last position when that is another position
StripQuotes(s) ==
    LET a == IF s # <<>> /\ s[1] = Quote THEN 2 ELSE 1
        b == IF Len(s) >= a /\ s[Len(s)] = Quote THEN Len(s) - 1 ELSE Len(s)
    IN  SubSeq(s, a, b)

\* h.trim().replace(/^"|"$/g, '')
CleanField(f) == StripQuotes(Trim(f))

\* line 27
Header(headerLine, delimiter) ==
    LET fields == SplitLine(headerLine, delimiter)
    IN  [j \in 1..Len(fields) |-> Str(CleanField(fields[j]))]

\* lines 41-47: obj[header[j]] = value, a later column of the same name
\* overwriting an earlier one
MakeEntry(header, currentline) ==
    [key \in Range(header) |->
        LET j == Max({i \in 1..Len(header) : header[i] = key})
        IN  CleanField(currentline[j])]

\* a loop that starts at the header line
DataLinesFromHeader(lines) == lines

\* the loop of lines 30-49 over lines[1..]
DataLines(lines) == Tail(lines)

\* lines 32-39: blank lines and lines of another field count are skipped
Retained(line, header, delimiter) ==
    /\ ~IsBlank(line)
    /\ Len(SplitLine(line, delimiter)) = Len(header)

\* a loop that stops at the first line it would have skipped
RECURSIVE EntriesUntilMalformed(_, _, _)
EntriesUntilMalformed(rows, header, delimiter) ==
    IF rows = <<>> \/ ~Retained(Head(rows), header, delimiter) THEN <<>>
    ELSE <<MakeEntry(header, SplitLine(Head(rows), delimiter))>>
            \o EntriesUntilMalformed(Tail(rows), header, delimiter)

RECURSIVE Entries(_, _, _)
Entries(rows, header, delimiter) ==
    IF rows = <<>> THEN <<>>
    ELSE LET rest == Entries(Tail(rows), header, delimiter)
         IN  IF Retained(Head(rows), header, delimiter)
             THEN <<MakeEntry(header, SplitLine(Head(rows), delimiter))>> \o rest
             ELSE rest

parseCSV(t) ==
    LET lines == Lines(t)
    IN  IF Len(lines) < 2 THEN <<>>
        ELSE LET delimiter == Delimiter(lines[1])
                 header == Header(lines[1], delimiter)
             IN  Entries(DataLines(lines), header, delimiter)

---------------------------------------------------------------------------
(* parseCSV on its own: the inputs *)

MaxRaw == 4
MaxRows == 5

Alphabet == {Comma, Semicolon, Quote, Space, LF, CR, BOM, "a"}

\* every text of at most MaxRaw symbols
RawTexts == UNION {[1..n -> Alphabet] : n \in 0..MaxRaw}

HeaderSamples ==
    { <<"a", Comma, "b">>,
      <<"a", Semicolon, "b">>,
      <<Quote, "a", Comma, "a", Quote, Semicolon, "b">>,
      <<"a", Comma, "b", Semicolon, "c">> }

RowSamples ==
    { <<"x", Comma, "y">>,
      <<"x", Semicolon, "y">>,
      <<Quote, "x", Comma, "y", Quote, Comma, "z">>,
      <<"x", Comma, "y", Comma, "z">> }

RECURSIVE JoinLines(_, _)
JoinLines(ls, sep) ==
    IF ls = <<>> THEN <<>>
    ELSE IF Len(ls) = 1 THEN ls[1]
         ELSE ls[1] \o sep \o JoinLines(Tail(ls), sep)

\* a header line and at most MaxRows data lines, ended by "\n" or "\r\n"
RowTexts ==
    { JoinLines(<<h>> \o rows, sep) :
        h \in HeaderSamples,
        rows \in UNION {[1..n -> RowSamples] : n \in 0..MaxRows},
        sep \in {<<LF>>, <<CR, LF>>} }

Texts == RawTexts \cup RowTexts

---------------------------------------------------------------------------

(* The App component, src/App.tsx:54-182 *)

\* s.toLowerCase(), symbol by symbol
Lower(c) ==
    CASE c = "A" -> "a"
      [] c = "B" -> "b"
      [] c = "Movie" -> "movie"
      [] c = "MOVIE" -> "movie"
      [] OTHER -> c

ToLowerCase(s) == [i \in 1..Len(s) |-> Lower(s[i])]

\* s.includes(q)
Includes(s, q) ==
    \E i \in 0..(Len(s) - Len(q)) : SubSeq(s, i + 1, i + Len(q)) = q

\* s.endsWith(q)
EndsWith(s, q) ==
    Len(s) >= Len(q) /\ SubSeq(s, Len(s) - Len(q) + 1, Len(s)) = q

DigitSymbols == <<"0", "1", "2", "3", "4", "5", "6", "7", "8", "9">>

IsDigit(c) == c \in Range(DigitSymbols)

DigitValue(c) == (CHOOSE i \in 1..10 : DigitSymbols[i] = c) - 1

RECURSIVE DecimalValue(_)
DecimalValue(digits) ==
    IF digits = <<>> THEN 0
    ELSE 10 * DecimalValue(SubSeq(digits, 1, Len(digits) - 1))
            + DigitValue(digits[Len(digits)])

NaN == [nan |-> TRUE, value |-> 0]

\* parseInt(s, 10): leading whitespace is skipped, then an optional sign and
\* the longest run of digits are read; NaN when there is no digit
ParseInt(s) ==
    LET solid == {i \in 1..Len(s) : ~IsWhitespace(s[i])}
        first == IF solid = {} THEN Len(s) + 1 ELSE Min(solid)
        signed == first <= Len(s) /\ s[first] \in {"-", "+"}
        from == IF signed THEN first + 1 ELSE first
        stop == Min({i \in from..Len(s) : ~IsDigit(s[i])} \cup {Len(s) + 1})
    IN  IF stop = from THEN NaN
        ELSE [nan |-> FALSE,
              value |-> IF signed /\ s[first] = "-"
                        THEN 0 - DecimalValue(SubSeq(s, from, stop - 1))
                        ELSE DecimalValue(SubSeq(s, from, stop - 1))]

\* String(n) for a natural number n
RECURSIVE NumberToString(_)
NumberToString(n) ==
    IF n < 10 THEN DigitSymbols[n + 1]
    ELSE NumberToString(n \div 10) \o DigitSymbols[(n % 10) + 1]

\* the elements of a set of numbers in ascending order
Ascending(S) ==
    [k \in 1..Cardinality(S) |->
        CHOOSE i \in S : Cardinality({j \in S : j <= i}) = k]

\* entry[key], undefined when the entry has no such key
Undefined == <<"undefined">>

Get(entry, key) == IF key \in DOMAIN entry THEN entry[key] ELSE Undefined

\* a filter that compares the title type as written
IsMovieAsWritten(entry) ==
    LET first == Get(entry, "Title Type")
        titleType == IF first # Undefined /\ first # <<>>
                     THEN first ELSE Get(entry, "TitleType")
        yearStr == Get(entry, "Year")
    IN  /\ titleType # Undefined
        /\ Str(titleType) = "movie"
        /\ yearStr # Undefined
        /\ yearStr # <<>>

\* lines 66-72
IsMovie(entry) ==
    LET first == Get(entry, "Title Type")
        titleType == IF first # Undefined /\ first # <<>>
                     THEN first ELSE Get(entry, "TitleType")
        yearStr == Get(entry, "Year")
    IN  /\ titleType # Undefined
        /\ Str(ToLowerCase(titleType)) = "movie"
        /\ yearStr # Undefined
        /\ yearStr # <<>>

filterAndProcessMovies(data) == SelectSeq(data, IsMovie)

\* a range check that lets the years 1800 and 2100 in
ChartYearInclusive(movie) ==
    LET year == ParseInt(Get(movie, "Year"))
    IN  IF ~year.nan /\ year.value >= 1800 /\ year.value <= 2100
        THEN {year.value} ELSE {}

\* line 78
ChartYear(movie) ==
    LET year == ParseInt(Get(movie, "Year"))
    IN  IF ~year.nan /\ year.value > 1800 /\ year.value < 2100
        THEN {year.value} ELSE {}

\* lines 74-86
createChartData(movies) ==
    LET years == UNION {ChartYear(movies[i]) : i \in 1..Len(movies)}
        sorted == Ascending(years)
    IN  [k \in 1..Len(sorted) |->
            [year |-> NumberToString(sorted[k]),
             count |-> Cardinality({i \in 1..Len(movies) :
                                      ChartYear(movies[i]) = {sorted[k]}})]]

\* the value of the error slot: null, or the message of the given kind; the
\* missing-columns message names the columns of allMissing.join(', ')
NoError == [kind |-> "null", columns |-> <<>>]

\* line 92
ErrInvalidType == [kind |-> "Felaktig filtyp", columns |-> <<>>]

\* line 113
ErrEmpty == [kind |-> "CSV-filen ar tom eller har ett ogiltigt format", columns |-> <<>>]

\* line 128
ErrMissingColumns(allMissing) ==
    [kind |-> "CSV-filen saknar nodvandiga kolumner", columns |-> allMissing]

\* line 134
ErrNoMovies == [kind |-> "Kunde inte hitta nagra filmer", columns |-> <<>>]

\* line 149
ErrRead == [kind |-> "Det gick inte att lasa filen", columns |-> <<>>]

\* line 121
REQUIRED_COLUMNS == <<"Const", "Title", "Year", "Your Rating", "URL">>

\* a validation that forgets the title type column
AllMissingButTitleType(firstRow) ==
    LET Missing(col) == col \notin DOMAIN firstRow
    IN  SelectSeq(REQUIRED_COLUMNS, Missing)

\* lines 122-127
AllMissing(firstRow) ==
    LET Missing(col) == col \notin DOMAIN firstRow
        missingColumns == SelectSeq(REQUIRED_COLUMNS, Missing)
        hasTitleType == "Title Type" \in DOMAIN firstRow
                            \/ "TitleType" \in DOMAIN firstRow
    IN  IF ~hasTitleType THEN Append(missingColumns, "Title Type")
        ELSE missingColumns

\* The try block of reader.onload, lines 108-140, for the text read: the
\* error thrown (NoError when none is), and what has been handed to
\* setAvailableColumns, setAllMovies and setChartData when it ends.
\* availableColumns is asked for membership only and is held as a set.
Processed(t) ==
    LET parsedData == parseCSV(t)
    IN  IF Len(parsedData) = 0
        THEN [thrown |-> ErrEmpty, columnsSet |-> FALSE, header |-> {},
              movies |-> <<>>, chart |-> <<>>]
        ELSE LET firstRow == parsedData[1]
                 allMissing == AllMissing(firstRow)
                 movies == filterAndProcessMovies(parsedData)
             IN  IF allMissing # <<>>
                 THEN [thrown |-> ErrMissingColumns(allMissing),
                       columnsSet |-> TRUE, header |-> DOMAIN firstRow,
                       movies |-> <<>>, chart |-> <<>>]
                 ELSE IF Len(movies) = 0
                 THEN [thrown |-> ErrNoMovies,
                       columnsSet |-> TRUE, header |-> DOMAIN firstRow,
                       movies |-> <<>>, chart |-> <<>>]
                 ELSE [thrown |-> NoError,
                       columnsSet |-> TRUE, header |-> DOMAIN firstRow,
                       movies |-> movies, chart |-> createChartData(movies)]

\* String(n) as a sequence of symbols
RECURSIVE NumberToSymbols(_)
NumberToSymbols(n) ==
    IF n < 0 THEN <<"-">> \o NumberToSymbols(0 - n)
    ELSE IF n < 10 THEN <<DigitSymbols[n + 1]>>
    ELSE Append(NumberToSymbols(n \div 10), DigitSymbols[(n % 10) + 1])

\* a number, Infinity or -Infinity
Finite(n) == [inf |-> FALSE, value |-> n]

Infinity == [inf |-> TRUE, value |-> 1]

NegInfinity == [inf |-> TRUE, value |-> -1]

\* n < b and n > b for an integer n
LessThan(n, b) == IF b.inf THEN b.value > 0 ELSE n < b.value

GreaterThan(n, b) == IF b.inf THEN b.value < 0 ELSE n > b.value

\* minYear and maxYear of MovieList, MovieChart.tsx:99-115: Infinity and
\* -Infinity when there is no Genres column, else the least and the
\* greatest year that parses
YearLimits(ms, columns) ==
    LET years == {ParseInt(Get(ms[i], "Year")).value :
                    i \in {j \in 1..Len(ms) : ~ParseInt(Get(ms[j], "Year")).nan}}
    IN  IF "Genres" \notin columns \/ years = {}
        THEN [minYear |-> Infinity, maxYear |-> NegInfinity]
        ELSE [minYear |-> Finite(Min(years)), maxYear |-> Finite(Max(years))]

\* the chart and MovieList are rendered, App.tsx:200 and 219
ListShownIn(term, loading, err, chart) ==
    Trim(term) = <<>> /\ ~loading /\ err = NoError /\ chart # <<>>

MovieListShown == ListShownIn(searchTerm, isLoading, error, chartData)

\* MovieChart.tsx:85-91
ListInit ==
    /\ selectedGenres = {}
    /\ selectedRatings = {}
    /\ yearRange = [min |-> <<>>, max |-> <<>>]
    /\ directorSearchTerm = <<>>
    /\ sortBy = "rating_desc"

\* MovieList after App has rendered again: unmounted, its state is gone and
\* the next mount starts from the initial one; mounted, its state stays;
\* the effect of MovieChart.tsx:117-121 runs on mount and when minYear or
\* maxYear has changed
RenderMovieList ==
    LET before == YearLimits(allMovies, availableColumns)
        after == YearLimits(allMovies', availableColumns')
        effect == /\ ~MovieListShown \/ after # before
                  /\ after.minYear # Infinity
                  /\ after.maxYear # NegInfinity
    IN  IF ListShownIn(searchTerm', isLoading', error', chartData')
        THEN /\ yearRange' =
                    IF effect
                    THEN [min |-> NumberToSymbols(after.minYear.value),
                          max |-> NumberToSymbols(after.maxYear.value)]
                    ELSE yearRange
             /\ UNCHANGED <<selectedGenres, selectedRatings,
                            directorSearchTerm, sortBy>>
        ELSE /\ selectedGenres' = {}
             /\ selectedRatings' = {}
             /\ yearRange' = [min |-> <<>>, max |-> <<>>]
             /\ directorSearchTerm' = <<>>
             /\ sortBy' = "rating_desc"

\* a gate that wants both the type and the extension
IsCSVByTypeAndName(file) ==
    file.type = "text/csv" /\ EndsWith(file.name, <<".", "c", "s", "v">>)

\* line 91
IsCSV(file) ==
    file.type = "text/csv" \/ EndsWith(file.name, <<".", "c", "s", "v">>)

MaxInFlight == 2

\* lines 88-154.  readAsText starts a read that ends in one load or one
\* error event; the readers still reading are bounded by MaxInFlight.
handleFileSelect(file) ==
    /\ op' = [name |-> "handleFileSelect", arg |-> file]
    /\ IF ~IsCSV(file)
       THEN /\ error' = ErrInvalidType
            /\ UNCHANGED <<allMovies, chartData, fileName, isLoading,
                           searchTerm, searchResults, availableColumns,
                           readers>>
       ELSE /\ Len(readers) < MaxInFlight
            /\ isLoading' = TRUE
            /\ error' = NoError
            /\ chartData' = <<>>
            /\ allMovies' = <<>>
            /\ fileName' = Str(file.name)
            /\ searchTerm' = <<>>
            /\ searchResults' = <<>>
            /\ availableColumns' = {}
            /\ readers' = Append(readers, file)
    /\ UNCHANGED disk
    /\ RenderMovieList
    /\ UNCHANGED modalVars
    /\ UNCHANGED parseVars

\* FileUpload is rendered while the search term is blank (App.tsx:200-202)
FileUploadShown == Trim(searchTerm) = <<>>

\* FileUpload.handleFileChange, MovieChart.tsx:395-399; the input is
\* disabled while loading (line 441)
HandleFileChange(file) ==
    /\ FileUploadShown
    /\ ~isLoading
    /\ handleFileSelect(file)

\* FileUpload.handleDrop, MovieChart.tsx:409-415; the label takes a drop
\* whether or not the input is disabled, unless the overlay of the detail
\* view (MovieDetailsModal.tsx:52) lies over it
HandleDrop(file) ==
    /\ FileUploadShown
    /\ ~(isModalOpen /\ selectedYear \notin {"null", ""})
    /\ handleFileSelect(file)

Remove(s, r) == SubSeq(s, 1, r - 1) \o SubSeq(s, r + 1, Len(s))

\* reader.onload, lines 107-146, of the r-th reader still reading
OnLoad(r) ==
    /\ r \in 1..Len(readers)
    /\ LET p == Processed(readers[r].content)
       IN  /\ availableColumns' =
                IF p.columnsSet THEN p.header ELSE availableColumns
           /\ IF p.thrown = NoError
              THEN /\ allMovies' = p.movies
                   /\ chartData' = p.chart
                   /\ UNCHANGED error
              ELSE /\ error' = p.thrown
                   /\ UNCHANGED <<allMovies, chartData>>
    /\ isLoading' = FALSE
    /\ readers' = Remove(readers, r)
    /\ op' = [name |-> "onload", arg |-> readers[r]]
    /\ UNCHANGED <<fileName, searchTerm, searchResults, disk>>
    /\ RenderMovieList
    /\ UNCHANGED modalVars
    /\ UNCHANGED parseVars

\* an error callback that leaves the loading flag up
OnErrorStillLoading(r) ==
    /\ r \in 1..Len(readers)
    /\ error' = ErrRead
    /\ readers' = Remove(readers, r)
    /\ op' = [name |-> "onerror", arg |-> readers[r]]
    /\ UNCHANGED <<allMovies, chartData, fileName, isLoading, searchTerm,
                   searchResults, availableColumns, disk>>
    /\ RenderMovieList
    /\ UNCHANGED modalVars
    /\ UNCHANGED parseVars

\* reader.onerror, lines 148-151, of the r-th reader still reading
OnError(r) ==
    /\ r \in 1..Len(readers)
    /\ error' = ErrRead
    /\ isLoading' = FALSE
    /\ readers' = Remove(readers, r)
    /\ op' = [name |-> "onerror", arg |-> readers[r]]
    /\ UNCHANGED <<allMovies, chartData, fileName, searchTerm, searchResults,
                   availableColumns, disk>>
    /\ RenderMovieList
    /\ UNCHANGED modalVars
    /\ UNCHANGED parseVars

\* the position a stable sort by rating, descending, gives element i
RankDesc(ratings, i) ==
    Cardinality({j \in 1..Len(ratings) : ratings[j] > ratings[i]})
        + Cardinality({j \in 1..i : ratings[j] = ratings[i]})

\* movies.sort((a, b) => parseInt(b['Your Rating']) - parseInt(a['Your Rating'])):
\* a stable sort when every rating parses; with a NaN among them the
\* comparator is not consistent and the order is implementation-defined
SortedByRating(movies) ==
    LET parsed == [i \in 1..Len(movies) |-> ParseInt(Get(movies[i], "Your Rating"))]
        ratings == [i \in 1..Len(movies) |-> parsed[i].value]
    IN  IF \A i \in 1..Len(movies) : ~parsed[i].nan
        THEN {[k \in 1..Len(movies) |->
                 movies[CHOOSE i \in 1..Len(movies) : RankDesc(ratings, i) = k]]}
        ELSE {[k \in 1..Len(movies) |-> movies[perm[k]]] :
                 perm \in {f \in [1..Len(movies) -> 1..Len(movies)] :
                              Range(f) = 1..Len(movies)}}

\* what the user can put in the search box
Queries == {<<>>, <<Space>>, <<"a">>, <<"B">>, <<"a", "b">>}

\* SearchBar is disabled while there is no movie or a file is loading
\* (App.tsx:197)
SearchBarEnabled == allMovies # <<>> /\ ~isLoading

\* a search that shows every record for a blank query
handleSearchChangeShowAll(value) ==
    /\ SearchBarEnabled
    /\ searchTerm' = value
    /\ IF Trim(value) = <<>>
       THEN searchResults' = allMovies
       ELSE LET Matches(movie) ==
                    Includes(ToLowerCase(Get(movie, "Title")), ToLowerCase(value))
            IN  searchResults' \in SortedByRating(SelectSeq(allMovies, Matches))
    /\ op' = [name |-> "handleSearchChange", arg |-> value]
    /\ UNCHANGED <<allMovies, chartData, fileName, error, isLoading,
                   availableColumns, readers, disk>>
    /\ RenderMovieList
    /\ UNCHANGED modalVars
    /\ UNCHANGED parseVars

\* lines 168-182
handleSearchChange(value) ==
    /\ SearchBarEnabled
    /\ searchTerm' = value
    /\ IF Trim(value) = <<>>
       THEN searchResults' = <<>>
       ELSE LET Matches(movie) ==
                    Includes(ToLowerCase(Get(movie, "Title")), ToLowerCase(value))
            IN  searchResults' \in SortedByRating(SelectSeq(allMovies, Matches))
    /\ op' = [name |-> "handleSearchChange", arg |-> value]
    /\ UNCHANGED <<allMovies, chartData, fileName, error, isLoading,
                   availableColumns, readers, disk>>
    /\ RenderMovieList
    /\ UNCHANGED modalVars
    /\ UNCHANGED parseVars

---------------------------------------------------------------------------
(* The year detail view: App.tsx:156-166, 239-246, MovieDetailsModal.tsx *)

\* MovieDetailsModal is rendered, App.tsx:239
ModalShown == isModalOpen /\ selectedYear \notin {"null", ""}

\* MovieDetailsModal.sortedMovies, MovieDetailsModal.tsx:15-26, for the
\* props movies and year and the state searchTerm
sortedMovies(ms, year, term) ==
    LET OfYear(movie) == Str(Get(movie, "Year")) = year
        Matches(movie) ==
            Includes(ToLowerCase(Get(movie, "Title")), ToLowerCase(term))
    IN  SortedByRating(SelectSeq(SelectSeq(ms, OfYear), Matches))

\* App.handleBarClick, App.tsx:156-161, called by the click on the bar of
\* the chart point data (MovieChart.tsx:41); the chart is rendered with
\* MovieList and lies under the overlay of the detail view while that is
\* shown
handleBarClick(data) ==
    /\ MovieListShown
    /\ ~ModalShown
    /\ IF data.year # ""
       THEN selectedYear' = data.year /\ isModalOpen' = TRUE
       ELSE UNCHANGED <<selectedYear, isModalOpen>>
    /\ UNCHANGED modalSearchTerm
    /\ op' = [name |-> "handleBarClick", arg |-> data]
    /\ UNCHANGED <<allMovies, chartData, fileName, error, isLoading,
                   searchTerm, searchResults, availableColumns, readers, disk>>
    /\ UNCHANGED listVars
    /\ UNCHANGED parseVars

\* App.handleCloseModal, App.tsx:163-166, called by the close button, a
\* click on the overlay or the Escape key; the view is unmounted and its
\* search term is gone
handleCloseModal ==
    /\ ModalShown
    /\ isModalOpen' = FALSE
    /\ selectedYear' = "null"
    /\ modalSearchTerm' = <<>>
    /\ op' = [name |-> "handleCloseModal", arg |-> <<>>]
    /\ UNCHANGED <<allMovies, chartData, fileName, error, isLoading,
                   searchTerm, searchResults, availableColumns, readers, disk>>
    /\ UNCHANGED listVars
    /\ UNCHANGED parseVars

\* what the user can put in the title filter of the detail view
ModalQueries == {<<>>, <<"a">>}

\* the title filter of the detail view, MovieDetailsModal.tsx:84
SetModalSearchTerm(value) ==
    /\ ModalShown
    /\ modalSearchTerm' = value
    /\ op' = [name |-> "setModalSearchTerm", arg |-> value]
    /\ UNCHANGED <<selectedYear, isModalOpen>>
    /\ UNCHANGED <<allMovies, chartData, fileName, error, isLoading,
                   searchTerm, searchResults, availableColumns, readers, disk>>
    /\ UNCHANGED listVars
    /\ UNCHANGED parseVars

---------------------------------------------------------------------------
(* MovieList, MovieChart.tsx:84-227 *)

\* MovieChart.tsx:59-83; the letters beyond ASCII are written plain
genreTranslations(g) ==
    CASE g = "Adventure" -> "Aventyr"
      [] g = "Animation" -> "Animerat"
      [] g = "Biography" -> "Biografi"
      [] g = "Comedy" -> "Komedi"
      [] g = "Crime" -> "Kriminal"
      [] g = "Documentary" -> "Dokumentar"
      [] g = "Family" -> "Familj"
      [] g = "History" -> "Historia"
      [] g = "Horror" -> "Skrack"
      [] g = "Music" -> "Musik"
      [] g = "Musical" -> "Musikal"
      [] g = "Mystery" -> "Mysterium"
      [] g = "Romance" -> "Romantik"
      [] g = "Short" -> "Kortfilm"
      [] g = "War" -> "Krig"
      [] g = "Western" -> "Vastern"
      [] OTHER -> g

\* s.split(', ')
SplitOnCommaSpace(s) ==
    LET P == {i \in 1..(Len(s) - 1) : s[i] = Comma /\ s[i + 1] = Space}
        pieces == SplitAt(s, P)
    IN  [k \in 1..Len(pieces) |->
            IF k = 1 THEN pieces[k] ELSE Tail(pieces[k])]

\* movieGenres, lines 165-166: the translated genres of a record, none when
\* it has no Genres field
GenresOf(movie) ==
    LET genres == Get(movie, "Genres")
    IN  IF genres = Undefined THEN {}
        ELSE {genreTranslations(Str(Trim(g))) : g \in Range(SplitOnCommaSpace(genres))}

\* allGenres, lines 99-115, as a set
AllGenres(ms, columns) ==
    IF "Genres" \notin columns THEN {}
    ELSE UNION {GenresOf(ms[i]) : i \in 1..Len(ms)} \ {""}

YourRatingOf(movie) == ParseInt(Get(movie, "Your Rating"))

YearOf(movie) == ParseInt(Get(movie, "Year"))

\* ms.sort by the numeric keys parsed, one for each record, descending for
\* sign 1 and ascending for sign -1: a stable sort when every key is a
\* number, any order when one is NaN
SortedBy(ms, parsed, sign) ==
    LET values == [i \in 1..Len(ms) |-> sign * parsed[i].value]
    IN  IF \A i \in 1..Len(ms) : ~parsed[i].nan
        THEN {[k \in 1..Len(ms) |->
                 ms[CHOOSE i \in 1..Len(ms) : RankDesc(values, i) = k]]}
        ELSE {[k \in 1..Len(ms) |-> ms[perm[k]]] :
                 perm \in {f \in [1..Len(ms) -> 1..Len(ms)] :
                              Range(f) = 1..Len(ms)}}

\* a filter that keeps a record with any one of the genres selected
FilteredAnyGenre(ms, columns, genres, ratings, range, director) ==
    LET limits == YearLimits(ms, columns)
        Entered(s, default) ==
            LET n == ParseInt(s)
            IN  IF n.nan \/ n.value = 0 THEN default ELSE Finite(n.value)
        min == Entered(range.min, limits.minYear)
        max == Entered(range.max, limits.maxYear)
        directorSearch == ToLowerCase(Trim(director))
        Directors(movie) ==
            IF Get(movie, "Directors") = Undefined THEN <<>>
            ELSE ToLowerCase(Get(movie, "Directors"))
        Keep(movie) ==
            LET movieYear == YearOf(movie)
            IN  /\ ~(\/ movieYear.nan
                     \/ LessThan(movieYear.value, min)
                     \/ GreaterThan(movieYear.value, max))
                /\ ("Genres" \in columns /\ genres # {}) =>
                        \E selectedGenre \in genres : selectedGenre \in GenresOf(movie)
                /\ ratings # {} => Str(Get(movie, "Your Rating")) \in ratings
                /\ ("Directors" \in columns /\ directorSearch # <<>>) =>
                        Includes(Directors(movie), directorSearch)
    IN  SelectSeq(ms, Keep)

\* the filter of filteredMovies, lines 153-188, for the props movies and
\* availableColumns and the facets chosen
Filtered(ms, columns, genres, ratings, range, director) ==
    LET limits == YearLimits(ms, columns)
        Entered(s, default) ==
            LET n == ParseInt(s)
            IN  IF n.nan \/ n.value = 0 THEN default ELSE Finite(n.value)
        min == Entered(range.min, limits.minYear)
        max == Entered(range.max, limits.maxYear)
        directorSearch == ToLowerCase(Trim(director))
        Directors(movie) ==
            IF Get(movie, "Directors") = Undefined THEN <<>>
            ELSE ToLowerCase(Get(movie, "Directors"))
        Keep(movie) ==
            LET movieYear == YearOf(movie)
            IN  /\ ~(\/ movieYear.nan
                     \/ LessThan(movieYear.value, min)
                     \/ GreaterThan(movieYear.value, max))
                /\ ("Genres" \in columns /\ genres # {}) =>
                        \A selectedGenre \in genres : selectedGenre \in GenresOf(movie)
                /\ ratings # {} => Str(Get(movie, "Your Rating")) \in ratings
                /\ ("Directors" \in columns /\ directorSearch # <<>>) =>
                        Includes(Directors(movie), directorSearch)
    IN  SelectSeq(ms, Keep)

\* the sort orders the user picks from here
SortOptions == {"rating_desc", "year_asc"}

\* the sort of filteredMovies, lines 190-226
Sorted(filtered, by) ==
    LET ratings == [i \in 1..Len(filtered) |-> YourRatingOf(filtered[i])]
        years == [i \in 1..Len(filtered) |-> YearOf(filtered[i])]
    IN  CASE by = "rating_asc" -> SortedBy(filtered, ratings, -1)
          [] by = "year_desc" -> SortedBy(filtered, years, 1)
          [] by = "year_asc" -> SortedBy(filtered, years, -1)
          [] OTHER -> SortedBy(filtered, ratings, 1)

\* MovieList.filteredMovies, lines 152-227: the lists the sort may give
filteredMovies ==
    Sorted(Filtered(allMovies, availableColumns, selectedGenres,
                    selectedRatings, yearRange, directorSearchTerm), sortBy)

\* lines 123-133; a check box is shown for each genre of allGenres
handleGenreChange(genre) ==
    /\ MovieListShown
    /\ genre \in AllGenres(allMovies, availableColumns)
    /\ selectedGenres' = IF genre \in selectedGenres
                         THEN selectedGenres \ {genre}
                         ELSE selectedGenres \cup {genre}
    /\ op' = [name |-> "handleGenreChange", arg |-> genre]
    /\ UNCHANGED <<selectedRatings, yearRange, directorSearchTerm, sortBy>>
    /\ UNCHANGED <<allMovies, chartData, fileName, error, isLoading,
                   searchTerm, searchResults, availableColumns, readers, disk>>
    /\ UNCHANGED modalVars
    /\ UNCHANGED parseVars

\* the ratings whose check box the user ticks here
RatingInputs == {"8"}

\* lines 135-145
handleRatingChange(rating) ==
    /\ MovieListShown
    /\ selectedRatings' = IF rating \in selectedRatings
                          THEN selectedRatings \ {rating}
                          ELSE selectedRatings \cup {rating}
    /\ op' = [name |-> "handleRatingChange", arg |-> rating]
    /\ UNCHANGED <<selectedGenres, yearRange, directorSearchTerm, sortBy>>
    /\ UNCHANGED <<allMovies, chartData, fileName, error, isLoading,
                   searchTerm, searchResults, availableColumns, readers, disk>>
    /\ UNCHANGED modalVars
    /\ UNCHANGED parseVars

\* what the user can put in a year box
YearInputs == {<<>>, <<"2", "0", "0", "0">>}

\* lines 147-150, for the box of the given name
handleYearChange(name, value) ==
    /\ MovieListShown
    /\ yearRange' = [yearRange EXCEPT ![name] = value]
    /\ op' = [name |-> "handleYearChange", arg |-> <<name, value>>]
    /\ UNCHANGED <<selectedGenres, selectedRatings, directorSearchTerm, sortBy>>
    /\ UNCHANGED <<allMovies, chartData, fileName, error, isLoading,
                   searchTerm, searchResults, availableColumns, readers, disk>>
    /\ UNCHANGED modalVars
    /\ UNCHANGED parseVars

\* what the user can put in the director box
DirectorQueries == {<<>>, <<"a">>}

\* line 314; the box is shown when there is a Directors column
SetDirectorSearchTerm(value) ==
    /\ MovieListShown
    /\ "Directors" \in availableColumns
    /\ directorSearchTerm' = value
    /\ op' = [name |-> "setDirectorSearchTerm", arg |-> value]
    /\ UNCHANGED <<selectedGenres, selectedRatings, yearRange, sortBy>>
    /\ UNCHANGED <<allMovies, chartData, fileName, error, isLoading,
                   searchTerm, searchResults, availableColumns, readers, disk>>
    /\ UNCHANGED modalVars
    /\ UNCHANGED parseVars

\* a sort that orders the records of App in place
SetSortByInPlace(option) ==
    /\ MovieListShown
    /\ sortBy' = option
    /\ allMovies' \in Sorted(allMovies, option)
    /\ op' = [name |-> "setSortBy", arg |-> option]
    /\ UNCHANGED <<selectedGenres, selectedRatings, yearRange, directorSearchTerm>>
    /\ UNCHANGED <<chartData, fileName, error, isLoading,
                   searchTerm, searchResults, availableColumns, readers, disk>>
    /\ UNCHANGED modalVars
    /\ UNCHANGED parseVars

\* line 327
SetSortBy(option) ==
    /\ MovieListShown
    /\ sortBy' = option
    /\ op' = [name |-> "setSortBy", arg |-> option]
    /\ UNCHANGED <<selectedGenres, selectedRatings, yearRange, directorSearchTerm>>
    /\ UNCHANGED <<allMovies, chartData, fileName, error, isLoading,
                   searchTerm, searchResults, availableColumns, readers, disk>>
    /\ UNCHANGED modalVars
    /\ UNCHANGED parseVars

---------------------------------------------------------------------------
(* The files at hand *)

CommaLine(fields) == JoinLines(fields, <<Comma>>)

FileText(lines) == JoinLines(lines, <<LF>>)

YourRating == <<"Your", Space, "Rating">>

TitleType == <<"Title", Space, "Type">>

\* Title Type before URL, read by name only: a.csv with no declared type
FileA ==
    [name |-> <<"a", ".", "c", "s", "v">>, type |-> "",
     content |-> FileText(<<
        CommaLine(<<<<"Const">>, <<"Title">>, <<"Year">>, YourRating, TitleType, <<"URL">>>>),
        CommaLine(<<<<"t1">>, <<"A", "b">>, <<"1", "9", "9", "9">>, <<"8">>, <<"movie">>, <<"u1">>>>),
        CommaLine(<<<<"t2">>, <<"b">>, <<"1", "9", "9", "9">>, <<"9">>, <<"Movie">>, <<"u2">>>>),
        CommaLine(<<<<"t3">>, <<"a">>, <<"2", "0", "0", "1">>, <<"7">>, <<"tvSeries">>, <<"u3">>>>) >>)]

\* the TitleType spelling, semicolons, accepted by declared type only
FileB ==
    [name |-> <<"d", "a", "t", "a">>, type |-> "text/csv",
     content |-> FileText(<<
        JoinLines(<<<<"Const">>, <<"Title">>, <<"Year">>, YourRating, <<"URL">>, <<"TitleType">>>>, <<Semicolon>>),
        JoinLines(<<<<"t4">>, <<"B", "a">>, <<"2", "0", "0", "1">>, <<"6">>, <<"u4">>, <<"MOVIE">>>>, <<Semicolon>>) >>)]

\* a header and nothing else
FileHeaderOnly ==
    [name |-> <<"h", ".", "c", "s", "v">>, type |-> "text/csv",
     content |-> CommaLine(<<<<"Const">>, <<"Title">>, <<"Year">>, YourRating, <<"URL">>, TitleType>>)]

\* neither URL nor a title type column
FileNoURL ==
    [name |-> <<"m", ".", "c", "s", "v">>, type |-> "text/csv",
     content |-> FileText(<<
        CommaLine(<<<<"Const">>, <<"Title">>, <<"Year">>, YourRating>>),
        CommaLine(<<<<"t1">>, <<"A", "b">>, <<"1", "9", "9", "9">>, <<"8">>>>) >>)]

\* no movie among the rows
FileSeries ==
    [name |-> <<"s", ".", "c", "s", "v">>, type |-> "text/csv",
     content |-> FileText(<<
        CommaLine(<<<<"Const">>, <<"Title">>, <<"Year">>, YourRating, <<"URL">>, TitleType>>),
        CommaLine(<<<<"t5">>, <<"a">>, <<"2", "0", "0", "1">>, <<"7">>, <<"u5">>, <<"tvSeries">>>>) >>)]

\* not a CSV file by type or by name
FileText1 ==
    [name |-> <<"n", ".", "t", "x", "t">>, type |-> "text/plain",
     content |-> FileA.content]

\* upper-case extension and a spreadsheet type
FileUpper ==
    [name |-> <<"u", ".", "C", "S", "V">>, type |-> "application/vnd.ms-excel",
     content |-> FileB.content]

\* movies of the years 1750 and abc, a movie with no year and a series
FileOld ==
    [name |-> <<"o", ".", "c", "s", "v">>, type |-> "text/csv",
     content |-> FileText(<<
        CommaLine(<<<<"Const">>, <<"Title">>, <<"Year">>, YourRating, <<"URL">>, TitleType>>),
        CommaLine(<<<<"t6">>, <<"a">>, <<"1", "7", "5", "0">>, <<"5">>, <<"u6">>, <<"movie">>>>),
        CommaLine(<<<<"t7">>, <<"b">>, <<"a", "b", "c">>, <<"4">>, <<"u7">>, <<"Movie">>>>),
        CommaLine(<<<<"t8">>, <<"a">>, <<>>, <<"3">>, <<"u8">>, <<"movie">>>>),
        CommaLine(<<<<"t9">>, <<"b">>, <<"2", "0", "0", "1">>, <<"2">>, <<"u9">>, <<"tvSeries">>>>) >>)]

\* movies of the genres Drama; Drama, War; War, Comedy
FileGenres ==
    [name |-> <<"g", ".", "c", "s", "v">>, type |-> "text/csv",
     content |-> FileText(<<
        CommaLine(<<<<"Const">>, <<"Title">>, <<"Year">>, YourRating, <<"URL">>, TitleType,
                    <<"Genres">>>>),
        CommaLine(<<<<"t1">>, <<"A", "b">>, <<"1", "9", "9", "9">>, <<"8">>, <<"u1">>, <<"movie">>,
                    <<"Drama">>>>),
        CommaLine(<<<<"t2">>, <<"b">>, <<"2", "0", "0", "1">>, <<"9">>, <<"u2">>, <<"movie">>,
                    <<Quote, "Drama", Comma, Space, "War", Quote>>>>),
        CommaLine(<<<<"t3">>, <<"a">>, <<"2", "0", "0", "1">>, <<"8">>, <<"u3">>, <<"movie">>,
                    <<Quote, "War", Comma, Space, "Comedy", Quote>>>>) >>)]

\* no Genres column but directors; movies of the years 1999, 1999a and 2001
FileYears ==
    [name |-> <<"y", ".", "c", "s", "v">>, type |-> "text/csv",
     content |-> FileText(<<
        CommaLine(<<<<"Const">>, <<"Title">>, <<"Year">>, YourRating, <<"URL">>, TitleType,
                    <<"Directors">>>>),
        CommaLine(<<<<"t1">>, <<"A", "b">>, <<"1", "9", "9", "9">>, <<"8">>, <<"u1">>, <<"movie">>,
                    <<"B">>>>),
        CommaLine(<<<<"t2">>, <<"b">>, <<"1", "9", "9", "9", "a">>, <<"9">>, <<"u2">>, <<"movie">>,
                    <<"a">>>>),
        CommaLine(<<<<"t3">>, <<"a">>, <<"2", "0", "0", "1">>, <<"8">>, <<"u3">>, <<"movie">>,
                    <<"B", "a">>>>) >>)]

BaseDisk == {FileA, FileB, FileHeaderOnly, FileNoURL, FileSeries, FileText1, FileUpper}

\* the columns a file may or may not have, and a value for each
ColumnNames ==
    <<<<"Const">>, <<"Title">>, <<"Year">>, YourRating, <<"URL">>, TitleType, <<"TitleType">>>>

ColumnValues ==
    <<<<"t1">>, <<"A", "b">>, <<"1", "9", "9", "9">>, <<"8">>, <<"u1">>, <<"movie">>, <<"movie">>>>

\* a file of one row with the Genres column and the columns numbered in S
ColumnFile(S) ==
    LET Chosen(i) == i \in S
        cols == SelectSeq(<<1, 2, 3, 4, 5, 6, 7>>, Chosen)
    IN  [name |-> <<"c", ".", "c", "s", "v">>, type |-> "text/csv",
         content |-> FileText(<<
            CommaLine(<<<<"Genres">>>> \o [k \in 1..Len(cols) |-> ColumnNames[cols[k]]]),
            CommaLine(<<<<Quote, "Drama", Comma, Space, "War", Quote>>>>
                        \o [k \in 1..Len(cols) |-> ColumnValues[cols[k]]]) >>)]

\* The disks: the base files, the file of the old movies alone, or one
\* file of some choice of columns.
Disks ==
    {[kind |-> "base", columns |-> {}], [kind |-> "old", columns |-> {}]}
        \cup {[kind |-> "columns", columns |-> S] : S \in SUBSET (1..7)}

\* The disks of one file to look at once it is loaded.
ViewDisks == {[kind |-> "genres", columns |-> {}], [kind |-> "years", columns |-> {}]}

FilesOn(d) ==
    IF d.kind = "base" THEN BaseDisk
    ELSE IF d.kind = "columns" THEN {ColumnFile(d.columns)}
    ELSE IF d.kind = "old" THEN {FileOld}
    ELSE IF d.kind = "genres" THEN {FileGenres}
    ELSE IF d.kind = "years" THEN {FileYears}
    ELSE {}

AppInit ==
    /\ allMovies = <<>>
    /\ chartData = <<>>
    /\ fileName = "null"
    /\ error = NoError
    /\ isLoading = FALSE
    /\ searchTerm = <<>>
    /\ searchResults = <<>>
    /\ availableColumns = {}
    /\ selectedYear = "null"
    /\ isModalOpen = FALSE
    /\ modalSearchTerm = <<>>
    /\ ListInit
    /\ readers = <<>>
    /\ op = [name |-> "none", arg |-> <<>>]

Init ==
    /\ AppInit
    /\ disk \in Disks
    /\ text = <<>>
    /\ result = <<>>
    /\ moviesArg = <<>>
    /\ points = <<>>
    /\ called = FALSE

Next ==
    \/ \E file \in FilesOn(disk) : HandleFileChange(file)
    \/ \E file \in FilesOn(disk) : HandleDrop(file)
    \/ \E r \in 1..MaxInFlight : OnLoad(r)
    \/ \E r \in 1..MaxInFlight : OnError(r)
    \/ \E value \in Queries : handleSearchChange(value)

Spec == Init /\ [][Next]_vars

\* The application with one file at hand, selected through the file input,
\* and the chart, the detail view and the facets of MovieList in use.
\* (Spec leaves the steps of the detail view and of MovieList out: none of
\* them writes a variable that the steps of Spec read.  The drop of a file
\* during a read is looked at under Spec.)
ViewInit ==
    /\ AppInit
    /\ disk \in ViewDisks
    /\ text = <<>>
    /\ result = <<>>
    /\ moviesArg = <<>>
    /\ points = <<>>
    /\ called = FALSE

ViewNext ==
    \/ \E file \in FilesOn(disk) : HandleFileChange(file)
    \/ \E r \in 1..MaxInFlight : OnLoad(r)
    \/ \E r \in 1..MaxInFlight : OnError(r)
    \/ \E value \in Queries : handleSearchChange(value)
    \/ \E k \in 1..Len(chartData) : handleBarClick(chartData[k])
    \/ handleCloseModal
    \/ \E value \in ModalQueries : SetModalSearchTerm(value)
    \/ \E genre \in AllGenres(allMovies, availableColumns) : handleGenreChange(genre)
    \/ \E rating \in RatingInputs : handleRatingChange(rating)
    \/ \E name \in {"min", "max"}, value \in YearInputs : handleYearChange(name, value)
    \/ \E value \in DirectorQueries : SetDirectorSearchTerm(value)
    \/ \E option \in SortOptions : SetSortBy(option)

ViewSpec == ViewInit /\ [][ViewNext]_vars

---------------------------------------------------------------------------
(* Properties of the upload workflow, checked under Spec *)

\* the file whose name the file name slot shows
ShownFiles == {f \in FilesOn(disk) : IsCSV(f) /\ Str(f.name) = fileName}

\* C1 as stated, for reads that deliver their content: once every read has
\* completed, the records, chart points and error message held are those
\* derived from the content of the most recently uploaded file; an earlier
\* read never overwrites them.  (States whose error slot holds a read
\* failure, or the rejection of a file that was never read, are left
\* aside.)
C1_LatestUploadWins ==
    (readers = <<>> /\ op.name = "onload"
                    /\ error \notin {ErrInvalidType, ErrRead}) =>
        \E f \in ShownFiles :
            LET p == Processed(f.content)
            IN  allMovies = p.movies /\ chartData = p.chart /\ error = p.thrown

\* C2 as stated: whenever the error slot is set, the record set, the chart
\* points and the search results are empty.
C2_ErrorMeansNoResults ==
    error # NoError =>
        allMovies = <<>> /\ chartData = <<>> /\ searchResults = <<>>

\* the gate as C3 words it
DeclaredCSV(file) ==
    LET n == Len(file.name)
    IN  \/ file.type = "text/csv"
        \/ n >= 4 /\ file.name[n - 3] = "." /\ file.name[n - 2] = "c"
                  /\ file.name[n - 1] = "s" /\ file.name[n] = "v"

\* C3: a file is accepted for reading iff its declared type is text/csv or
\* its name ends with .csv.  An accepted file raises the loading flag and
\* starts a read; for any other file handleFileSelect sets the invalid
\* file type error and leaves the loading flag, the reads, the file name,
\* the records, the chart points, the search term and the search results
\* as they were; a read callback is only ever delivered for an accepted
\* file.
C3_OnlyCSVIsRead ==
    [][ /\ op'.name = "handleFileSelect" =>
             IF DeclaredCSV(op'.arg)
             THEN isLoading' /\ readers' = Append(readers, op'.arg)
             ELSE /\ error' = ErrInvalidType
                  /\ UNCHANGED <<isLoading, readers, fileName, allMovies,
                                 chartData, searchTerm, searchResults>>
        /\ op'.name \in {"onload", "onerror"} => DeclaredCSV(op'.arg)
      ]_vars

\* a file that is no CSV was turned down while records of an earlier file
\* were held, and they are held still
C3_Witness ==
    /\ op.name = "handleFileSelect"
    /\ ~DeclaredCSV(op.arg)
    /\ error = ErrInvalidType
    /\ ~isLoading
    /\ readers = <<>>
    /\ allMovies # <<>>
    /\ chartData # <<>>

\* the required columns, and the columns C4 wants named for a first row
RequiredNames == {"Const", "Title", "Year", "Your Rating", "URL"}

NamesToReport(firstRow) ==
    {c \in RequiredNames : c \notin DOMAIN firstRow}
        \cup (IF "Title Type" \notin DOMAIN firstRow
                    /\ "TitleType" \notin DOMAIN firstRow
              THEN {"Title Type"} ELSE {})

\* C4: when the content read parses to at least one record and lacks a
\* required column, the load callback sets the missing-columns message,
\* which names each absent one of Const, Title, Year, Your Rating, URL
\* once, and Title Type iff both Title Type and TitleType are absent, and
\* nothing else; it stores no record and produces no chart point.
C4_NamesMissingColumns ==
    [][ op'.name = "onload" =>
          LET parsedData == parseCSV(op'.arg.content)
          IN  (Len(parsedData) > 0 /\ NamesToReport(parsedData[1]) # {}) =>
                /\ error'.kind = ErrMissingColumns(<<>>).kind
                /\ Range(error'.columns) = NamesToReport(parsedData[1])
                /\ Len(error'.columns) = Cardinality(NamesToReport(parsedData[1]))
                /\ UNCHANGED <<allMovies, chartData>>
      ]_vars

\* a file without URL and without either title type column was turned down
\* naming both
C4_Witness ==
    /\ op.name = "onload"
    /\ error = ErrMissingColumns(<<"URL", "Title Type">>)
    /\ "Title" \in availableColumns
    /\ allMovies = <<>>
    /\ chartData = <<>>

\* C5: every read ends in one callback, which clears the loading flag on
\* every path and applies exactly one outcome: the read error, or the error
\* thrown while processing the content (and then no record and no chart
\* point), or the movies and chart points of the content (and then no
\* error); the reader delivers nothing more.
C5_ReadResumesOnce ==
    [][ op'.name \in {"onload", "onerror"} =>
          /\ ~isLoading'
          /\ Len(readers) > 0
          /\ \E r \in 1..Len(readers) :
                readers[r] = op'.arg /\ readers' = Remove(readers, r)
          /\ IF op'.name = "onerror"
             THEN error' = ErrRead /\ UNCHANGED <<allMovies, chartData>>
             ELSE LET p == Processed(op'.arg.content)
                  IN  IF p.thrown = NoError
                      THEN /\ allMovies' = p.movies /\ allMovies' # <<>>
                           /\ chartData' = p.chart
                           /\ UNCHANGED error
                      ELSE /\ error' = p.thrown
                           /\ UNCHANGED <<allMovies, chartData>>
      ]_vars

\* a read failed while loading and the loading flag is down again
C5_Witness ==
    /\ op.name = "onerror"
    /\ error = ErrRead
    /\ ~isLoading
    /\ readers = <<>>
    /\ fileName # "null"

\* the spellings of movie in the files at hand
MovieSpellings == {<<"movie">>, <<"Movie">>, <<"MOVIE">>}

\* a qualifying movie as C11 words it: the title type field, under either
\* header spelling, is movie in some casing and the Year field is not empty
Qualifies(entry) ==
    /\ \E k \in {"Title Type", "TitleType"} \cap DOMAIN entry :
            entry[k] \in MovieSpellings
    /\ "Year" \in DOMAIN entry
    /\ entry["Year"] # <<>>

\* C11: the records held are qualifying movies in every state, and a load
\* callback whose content parses to records, lacks no required column and
\* has a qualifying record leaves exactly the qualifying records held, in
\* parse order, whatever their years are.
C11_OnlyQualifyingMovies ==
    [][ /\ \A i \in 1..Len(allMovies') : Qualifies(allMovies'[i])
        /\ op'.name = "onload" =>
              LET parsedData == parseCSV(op'.arg.content)
              IN  (/\ Len(parsedData) > 0
                   /\ NamesToReport(parsedData[1]) = {}
                   /\ \E i \in 1..Len(parsedData) : Qualifies(parsedData[i])) =>
                     allMovies' = SelectSeq(parsedData, Qualifies)
      ]_vars

\* a file was loaded whose movies of the years 1750 and abc are held, the
\* movie without a year and the series are not
C11_Witness ==
    /\ op.name = "onload"
    /\ error = NoError
    /\ Len(allMovies) = 2
    /\ Len(parseCSV(op.arg.content)) = 4
    /\ allMovies[1]["Year"] = <<"1", "7", "5", "0">>
    /\ allMovies[2]["Year"] = <<"a", "b", "c">>
    /\ allMovies[2]["Title Type"] = <<"Movie">>

\* the same letter, whatever the case
SameLetter(c, d) == c = d \/ {c, d} \in {{"a", "A"}, {"b", "B"}}

\* the title holds the query somewhere, letter for letter whatever the case
TitleContains(movie, q) ==
    LET title == movie["Title"]
    IN  \E at \in 0..(Len(title) - Len(q)) :
            \A i \in 1..Len(q) : SameLetter(title[at + i], q[i])

\* how often a record occurs in a sequence
Occurrences(s, m) == Cardinality({i \in 1..Len(s) : s[i] = m})

\* C13: handleSearchChange with an empty or blank query leaves the search
\* results empty; with any other query the results are the held records
\* whose Title contains the query, case ignored, each as often as it is
\* held, and no other record.
C13_SearchSuppressedOnBlank ==
    [][ op'.name = "handleSearchChange" =>
          LET q == op'.arg
              Hit(movie) == TitleContains(movie, q)
              hits == SelectSeq(allMovies, Hit)
          IN  IF \A i \in 1..Len(q) : q[i] = Space
              THEN searchResults' = <<>>
              ELSE /\ Len(searchResults') = Len(hits)
                   /\ \A i \in 1..Len(hits) :
                         Occurrences(searchResults', hits[i]) = Occurrences(hits, hits[i])
      ]_vars

\* the query a found the one held record of the title Ab and not the other
C13_Witness ==
    /\ op.name = "handleSearchChange"
    /\ op.arg = <<"a">>
    /\ Len(allMovies) = 2
    /\ Len(searchResults) = 1
    /\ searchResults[1]["Title"] = <<"A", "b">>

\* C17 as stated: the loading flag is up exactly when a read is in flight.
C17_LoadingIffReadInFlight == isLoading <=> readers # <<>>

\* C18 as stated: every search result is one of the records held, and
\* there is no search result while the search term is blank.
C18_ResultsAreHeldRecords ==
    /\ \A i \in 1..Len(searchResults) : searchResults[i] \in Range(allMovies)
    /\ Trim(searchTerm) = <<>> => searchResults = <<>>

\* C20 as stated: when no file is loading, the error slot is empty and
\* records are held, there are chart points, so that the chart and the
\* main list are rendered and the placeholder is not.
C20_LoadedShowsChart ==
    (~isLoading /\ error = NoError /\ allMovies # <<>>) => chartData # <<>>

---------------------------------------------------------------------------
(* parseCSV called on its own *)

ParseInit ==
    /\ AppInit
    /\ disk = [kind |-> "none", columns |-> {}]
    /\ text \in Texts
    /\ result = <<>>
    /\ moviesArg = <<>>
    /\ points = <<>>
    /\ called = FALSE

CallParseCSV ==
    /\ ~called
    /\ result' = parseCSV(text)
    /\ called' = TRUE
    /\ UNCHANGED <<text, moviesArg, points>>
    /\ UNCHANGED appVars

ParseNext == CallParseCSV

ParseSpec == ParseInit /\ [][ParseNext]_vars

---------------------------------------------------------------------------
(* Properties of parseCSV, checked under ParseSpec *)

\* What the claims speak of, for the argument t: its non-blank lines, and for
\* a text of two lines or more the delimiter, the header fields as split
\* and as cleaned, the field count of every line and the positions of the
\* data lines whose field count is the header's.
View(t) ==
    LET lines == Lines(t)
    IN  IF Len(lines) < 2
        THEN [lines |-> lines, delimiter |-> Comma, headerFields |-> <<>>,
              header |-> <<>>, fields |-> <<>>, matching |-> {}]
        ELSE LET d == Delimiter(lines[1])
                 fields == [i \in 1..Len(lines) |-> SplitLine(lines[i], d)]
                 header == Header(lines[1], d)
             IN  [lines |-> lines, delimiter |-> d,
                  headerFields |-> fields[1], header |-> header,
                  fields |-> fields,
                  matching |-> {i \in 2..Len(lines) :
                                    Len(fields[i]) = Len(header)}]

\* the last column named as column j is
LastNamed(header, j) == Max({c \in 1..Len(header) : header[c] = header[j]})

\* C6: parseCSV skips, without aborting, every data line whose field count
\* differs from the header's: the result holds exactly one record for each
\* non-blank data line whose field count equals the header's, in input
\* order, the lines after a skipped line included.
C6_SkipsMalformedLines ==
    called =>
        LET v == View(text)
            lineOf == Ascending(v.matching)
        IN  Len(v.lines) >= 2 =>
              /\ Len(result) = Cardinality(v.matching)
              /\ \A k \in 1..Len(result) :
                   \A j \in 1..Len(v.header) :
                      result[k][v.header[j]] =
                        CleanField(v.fields[lineOf[k]][LastNamed(v.header, j)])

\* a file of five rows whose third row has an extra field gave the four
\* records of rows 1, 2, 4, 5
C6_Witness ==
    called /\ Len(result) = 4 /\
        LET v == View(text)
        IN  /\ Len(v.lines) = 6
            /\ v.matching = {2, 3, 5, 6}
            /\ Len(v.fields[4]) = Len(v.header) + 1

\* C7: every record returned has a key set equal to the header's field
\* list, a file whose N data rows all have the header's field count yields
\* exactly N records, and a text with fewer than two non-blank lines yields
\* the empty sequence.
C7_KeySetAndCount ==
    called =>
        LET v == View(text)
        IN  /\ Len(v.lines) < 2 => result = <<>>
            /\ Len(v.lines) >= 2 =>
                 /\ \A k \in 1..Len(result) :
                        DOMAIN result[k] = Range(v.header)
                 /\ v.matching = 2..Len(v.lines) =>
                        Len(result) = Len(v.lines) - 1

\* a well-formed file of three data rows and two columns gave three records
C7_Witness ==
    called /\ Len(result) = 3 /\
        LET v == View(text)
        IN  /\ Len(v.lines) = 4
            /\ v.matching = {2, 3, 4}
            /\ Cardinality(DOMAIN result[1]) = 2

\* occurrences of c in the line outside double-quoted spans
TopLevelCount(line, c) ==
    Cardinality({i \in 1..Len(line) :
                    line[i] = c /\ QuotesIn(line, 1, i - 1) % 2 = 0})

\* C8 as stated: the delimiter is comma iff the header line has at least as
\* many top-level commas as top-level semicolons.
C8_TopLevelDelimiter ==
    called =>
        LET v == View(text)
        IN  Len(v.lines) >= 2 =>
              v.delimiter = IF TopLevelCount(v.lines[1], Comma)
                                 >= TopLevelCount(v.lines[1], Semicolon)
                            THEN Comma ELSE Semicolon

\* C9 as stated: a delimiter is a split point only when an even number of
\* double quotes has been seen since the last split point on that line.
C9_EvenQuotesSeenBefore ==
    called =>
        LET v == View(text)
        IN  \A n \in 1..Len(v.fields) :
              LET line == v.lines[n]
                  cuts == {i \in 1..Len(line) :
                              \E k \in 1..(Len(v.fields[n]) - 1) :
                                  i = k + Len(JoinLines(SubSeq(v.fields[n], 1, k),
                                                        <<v.delimiter>>))}
              IN  \A i \in cuts :
                     LET last == Max({p \in cuts : p < i} \cup {0})
                     IN  QuotesIn(line, last + 1, i - 1) % 2 = 0

\* C9 amended: a delimiter is a split point iff an even number of double
\* quotes follows it on the line.  The fields joined by the delimiter give
\* the line back, every field after the first holds an even number of
\* double quotes, and a delimiter left inside a field has an odd number of
\* double quotes after it in that field; on a line with an even number of
\* double quotes every field holds an even number and a delimiter left
\* inside a field has an odd number before it in that field, so a quoted
\* value containing the delimiter stays one field.
C9_EvenQuotesFollow ==
    called =>
        LET v == View(text)
            d == v.delimiter
        IN  \A n \in 1..Len(v.fields) :
              LET line == v.lines[n]
                  fields == v.fields[n]
                  balanced == QuotesIn(line, 1, Len(line)) % 2 = 0
              IN  /\ JoinLines(fields, <<d>>) = line
                  /\ \A k \in 1..Len(fields) :
                       LET f == fields[k]
                       IN  /\ (k > 1 \/ balanced) => QuotesIn(f, 1, Len(f)) % 2 = 0
                           /\ \A p \in 1..Len(f) :
                                f[p] = d =>
                                  /\ QuotesIn(f, p + 1, Len(f)) % 2 = 1
                                  /\ balanced => QuotesIn(f, 1, p - 1) % 2 = 1

\* a record came back holding a value with the delimiter in it
C9_Witness ==
    /\ called
    /\ \E k \in 1..Len(result) :
         \E key \in DOMAIN result[k] :
            View(text).delimiter \in Range(result[k][key])

\* the field as C10 says it is cleaned: trimmed, and one leading and one
\* trailing double quote stripped only if both are present
StripBothOrNone(f) ==
    LET s == Trim(f)
    IN  IF Len(s) >= 2 /\ s[1] = Quote /\ s[Len(s)] = Quote
        THEN SubSeq(s, 2, Len(s) - 1)
        ELSE s

\* C10 as stated: every header field and data field is trimmed and loses
\* one leading and one trailing double quote only if both are present.
C10_StripsOnlyPairs ==
    called =>
        LET v == View(text)
            lineOf == Ascending(v.matching)
        IN  /\ \A j \in 1..Len(v.header) :
                 v.header[j] = Str(StripBothOrNone(v.headerFields[j]))
            /\ \A k \in 1..Len(result) :
                 \A j \in 1..Len(v.header) :
                    result[k][v.header[j]] =
                      StripBothOrNone(v.fields[lineOf[k]][LastNamed(v.header, j)])

---------------------------------------------------------------------------
(* createChartData called on its own *)

MaxMovies == 3

\* the Year fields of the qualifying records handed to createChartData;
\* none is empty (line 71)
YearSamples ==
    { <<"1", "9", "9", "9">>, <<"2", "0", "0", "1">>,
      <<"1", "8", "0", "0">>, <<"1", "8", "0", "1">>,
      <<"2", "0", "9", "9">>, <<"2", "1", "0", "0">>,
      <<"a", "b", "c">>, <<"1", "9", "9", "9", "a">>,
      <<"0", "1", "9", "9", "9">> }

MovieOfYear(y) ==
    [k \in {"Year", "Title Type"} |-> IF k = "Year" THEN y ELSE <<"movie">>]

MovieLists ==
    UNION {[1..n -> {MovieOfYear(y) : y \in YearSamples}] : n \in 0..MaxMovies}

ChartInit ==
    /\ AppInit
    /\ disk = [kind |-> "none", columns |-> {}]
    /\ text = <<>>
    /\ result = <<>>
    /\ moviesArg \in MovieLists
    /\ points = <<>>
    /\ called = FALSE

CallCreateChartData ==
    /\ ~called
    /\ points' = createChartData(moviesArg)
    /\ called' = TRUE
    /\ UNCHANGED <<text, result, moviesArg>>
    /\ UNCHANGED appVars

ChartNext == CallCreateChartData

ChartSpec == ChartInit /\ [][ChartNext]_vars

---------------------------------------------------------------------------
(* Properties of createChartData, checked under ChartSpec *)

\* the integer a Year field is parsed as: the value of its leading digits,
\* none when it does not begin with a digit
IntegerYear(movie) ==
    LET y == movie["Year"]
        n == Max({k \in 0..Len(y) : \A i \in 1..k : y[i] \in Range(DigitSymbols)})
    IN  IF n = 0 THEN {} ELSE {DecimalValue(SubSeq(y, 1, n))}

\* the years that get a chart point
Charted(ms) ==
    {y \in UNION {IntegerYear(ms[i]) : i \in 1..Len(ms)} : 1800 < y /\ y < 2100}

\* C12: createChartData emits one point for each distinct integer year y
\* with 1800 < y < 2100 among the records and no other point, each with
\* the number of records of that year as its count, in strictly ascending
\* order of year; the years 1999, 1999, 2001 give the points (1999, 2),
\* (2001, 1).
C12_OnePointPerYear ==
    called =>
        LET charted == Charted(moviesArg)
            YearAt(k) == CHOOSE y \in charted : NumberToString(y) = points[k].year
        IN  /\ Len(points) = Cardinality(charted)
            /\ \A k \in 1..Len(points) :
                  /\ \E y \in charted : NumberToString(y) = points[k].year
                  /\ points[k].count =
                        Cardinality({i \in 1..Len(moviesArg) :
                                        IntegerYear(moviesArg[i]) = {YearAt(k)}})
            /\ \A k \in 1..(Len(points) - 1) : YearAt(k) < YearAt(k + 1)
            /\ \A y \in charted :
                  Cardinality({k \in 1..Len(points) : points[k].year = NumberToString(y)}) = 1
            /\ [i \in 1..Len(moviesArg) |-> Str(moviesArg[i]["Year"])]
                    = <<"1999", "1999", "2001">>
                  => points = <<[year |-> "1999", count |-> 2],
                                [year |-> "2001", count |-> 1]>>

\* records of the years 2001, 1800 and 1999 gave the points of 1999 and
\* 2001, in that order
C12_Witness ==
    /\ called
    /\ Len(moviesArg) = 3
    /\ Str(moviesArg[1]["Year"]) = "2001"
    /\ Str(moviesArg[2]["Year"]) = "1800"
    /\ Str(moviesArg[3]["Year"]) = "1999"
    /\ points = <<[year |-> "1999", count |-> 1], [year |-> "2001", count |-> 1]>>

---------------------------------------------------------------------------
(* Properties of the views of the loaded records, checked under ViewSpec *)

\* the names MovieList shows for the genres of the files at hand
Localized(genre) ==
    CASE genre = "War" -> "Krig"
      [] genre = "Comedy" -> "Komedi"
      [] OTHER -> genre

\* the localized genres a record lists in its Genres field
LocalizedGenres(movie) ==
    {Localized(g) : g \in Range(movie["Genres"]) \ {Comma, Space}}

\* C14: with a Genres column and a non-empty set of genres selected, the
\* main list keeps, of the records that pass the other facets, those whose
\* localized genre list holds every selected genre and no other record;
\* of the records of the genres Drama; Drama, War; War, Comedy the
\* selection Drama, War keeps the second alone.
C14_GenreFacetIsAND ==
    (MovieListShown /\ "Genres" \in availableColumns /\ selectedGenres # {}) =>
        LET others == Filtered(allMovies, availableColumns, {}, selectedRatings,
                               yearRange, directorSearchTerm)
            Kept(movie) == selectedGenres \subseteq LocalizedGenres(movie)
            expected == SelectSeq(others, Kept)
        IN  \A list \in filteredMovies :
              /\ Len(list) = Len(expected)
              /\ Range(list) = Range(expected)
              /\ (/\ selectedGenres = {"Drama", "Krig"}
                   /\ [i \in 1..Len(others) |-> LocalizedGenres(others[i])]
                        = <<{"Drama"}, {"Drama", "Krig"}, {"Krig", "Komedi"}>>)
                    => list = <<others[2]>>

\* Drama and War are selected, no other facet keeps a record out, and of
\* the three records held the list shows the one of both genres
C14_Witness ==
    /\ MovieListShown
    /\ selectedGenres = {"Drama", "Krig"}
    /\ selectedRatings = {}
    /\ Len(allMovies) = 3
    /\ Len(Filtered(allMovies, availableColumns, {}, selectedRatings,
                    yearRange, directorSearchTerm)) = 3
    /\ filteredMovies = {<<allMovies[2]>>}
    /\ Str(allMovies[2]["Genres"]) = "Drama, War"

\* the least and the greatest integer year among the records held
ObservedYears == UNION {IntegerYear(allMovies[i]) : i \in 1..Len(allMovies)}

\* the bound a year box stands for: the number entered, or the given
\* default when the box is empty
BoundOf(box, default) ==
    IF box = <<>> THEN default ELSE DecimalValue(box)

\* C15 as stated: with no other facet selected the main list holds the
\* records whose integer year lies between the lower and the upper bound,
\* both included, where an empty box stands for the least, or the
\* greatest, year observed in the data; so with both boxes empty it holds
\* every record with an integer year, with or without a Genres column.
C15_YearFacetDefaults ==
    (/\ MovieListShown
     /\ selectedGenres = {}
     /\ selectedRatings = {}
     /\ Trim(directorSearchTerm) = <<>>) =>
        LET low == BoundOf(yearRange.min, Min(ObservedYears))
            high == BoundOf(yearRange.max, Max(ObservedYears))
            InRange(movie) ==
                \E y \in IntegerYear(movie) : low <= y /\ y <= high
            expected == SelectSeq(allMovies, InRange)
        IN  \A list \in filteredMovies :
                Len(list) = Len(expected) /\ Range(list) = Range(expected)

\* the chart and the main list of a loaded file are on show
Loaded ==
    ~isLoading /\ error = NoError /\ allMovies # <<>> /\ chartData # <<>>

\* the steps that look at the loaded records
ViewSteps ==
    {"handleSearchChange", "handleBarClick", "handleCloseModal",
     "setModalSearchTerm", "handleGenreChange", "handleRatingChange",
     "handleYearChange", "setDirectorSearchTerm", "setSortBy"}

\* C16: in the Loaded state the search box is enabled and, while the
\* search term is blank, the chart to click on and the main list with its
\* facets and its sort are on show; a detail view that is open shows its
\* close button.  None of the steps taken there starts a read or changes
\* the records held, their order, the chart points or the error slot, and
\* the main list recomputed for a sort order, like the detail list
\* computed for a chart point, is one list for the records and the
\* criteria at hand.
C16_ViewsLeaveRecordsAlone ==
    [][ /\ Loaded =>
             /\ SearchBarEnabled
             /\ Trim(searchTerm) = <<>> => MovieListShown
             /\ (isModalOpen /\ selectedYear # "null") => ModalShown
        /\ op'.name \in ViewSteps =>
             UNCHANGED <<allMovies, chartData, error, readers, isLoading>>
        /\ op.name = "setSortBy" => Cardinality(filteredMovies) = 1
        /\ op.name = "handleBarClick" =>
             Cardinality(sortedMovies(allMovies, selectedYear, modalSearchTerm)) = 1
      ]_vars

\* the sort by rating was chosen: the main list shows the record rated 9
\* first while the records held are in the order of the file
C16_Witness ==
    /\ Loaded
    /\ op.name = "setSortBy"
    /\ op.arg = "rating_desc"
    /\ [i \in 1..Len(allMovies) |-> Str(allMovies[i]["Const"])] = <<"t1", "t2", "t3">>
    /\ filteredMovies = {<<allMovies[2], allMovies[1], allMovies[3]>>}

\* C19 as stated: the click on a chart point opens the detail view whose
\* list, its title filter being empty, has as many records as the point
\* counts.
C19_DetailListMatchesCount ==
    (op.name = "handleBarClick" /\ modalSearchTerm = <<>>) =>
        \A list \in sortedMovies(allMovies, selectedYear, modalSearchTerm) :
            Len(list) = op.arg.count

=============================================================================
